---- MODULE Spec2Model ----
(***************************************************************************)
(* Model of the rql-py installer shim: the provisioner                     *)
(* (scripts/postinstall.js) and the launcher (bin shim).                   *)
(*                                                                         *)
(* A child process result is the record node's spawnSync / 'exit' event    *)
(* delivers: a numeric status or null, a signal name or null, and (for     *)
(* spawnSync) an error when the child could not be started.                *)
(***************************************************************************)
EXTENDS Integers, Sequences, FiniteSets, TLC

\* ------------------------------------------------------------------------
\* Bounds of the model

\* longest launcher argument list explored
MaxArgs == 2
\* number of launcher processes that may be alive at once
NumLaunchers == 2

\* ------------------------------------------------------------------------
\* Values

\* JavaScript null where a number is expected (res.status, exit code)
NullStatus == -1
\* JavaScript NaN, the result of Number() on a non-numeric string
NaN == -2
\* JavaScript null where a string is expected (signal name, candidate)
null == "null"

\* exit statuses a child process is explored with
ExitStatuses == {0, 1, 7}
\* signals a child process is explored to be terminated by
Signals == {"SIGTERM", "SIGKILL", "SIGPIPE"}
\* launcher argument tokens
ArgTokens == {"run", "-v"}

Platforms == {"posix", "win32"}

\* fixed filesystem layout
VENDOR == "vendor"
VENV == "vendor/venv"

venvPython(plat) ==
    IF plat = "win32" THEN "vendor/venv/Scripts/python.exe"
                      ELSE "vendor/venv/bin/python"

\* candidate list of findPython311Plus, most preferred first
Candidates(plat) ==
    IF plat = "win32" THEN <<"py -3.11", "py -3", "python3", "python">>
                      ELSE <<"python3.12", "python3.11", "python3", "python">>

NumCandidates == 4

\* ------------------------------------------------------------------------
\* Results of child processes

\* child ran and exited with status s
Exited(s) == [status |-> s, signal |-> null, error |-> FALSE]
\* child was terminated by signal sig: status is null, no error
Killed(sig) == [status |-> NullStatus, signal |-> sig, error |-> FALSE]
\* child could not be started: status is null, error is set
NotStarted == [status |-> NullStatus, signal |-> null, error |-> TRUE]
\* no child was run
NoResult == [status |-> NullStatus, signal |-> null, error |-> FALSE]

ChildResults ==
    {Exited(s) : s \in ExitStatuses} \cup {Killed(g) : g \in Signals}
        \cup {NotStarted}

\* run(cmd, args, opts): the status main() acts on
run(r) ==
    IF r.status # NullStatus THEN r.status
    ELSE IF r.error THEN 1 ELSE 0

\* ------------------------------------------------------------------------
\* Interpreter probing

DigitChar == <<"0", "1", "2", "3", "4", "5", "6", "7", "8", "9">>

RECURSIVE Digits(_)
\* "%d" of a natural number, as a sequence of characters
Digits(n) ==
    IF n < 10 THEN <<DigitChar[n + 1]>>
    ELSE Digits(n \div 10) \o <<DigitChar[(n % 10) + 1]>>

\* what the probe script prints: "%d.%d" % sys.version_info[:2], newline
PrintVersion(maj, min) == Digits(maj) \o <<".">> \o Digits(min) \o <<"\n">>

\* what is behind a candidate name on this machine
ProbeVersions == {<<2, 7>>, <<3, 9>>, <<3, 11>>, <<3, 12>>, <<4, 0>>}

ProbeOutcomes ==
    {[kind |-> k, maj |-> 0, min |-> 0] :
        k \in {"absent", "nonzero", "killed", "empty"}}
    \cup {[kind |-> "version", maj |-> v[1], min |-> v[2]] : v \in ProbeVersions}

\* runCapture(cmd, args): the spawnSync result with captured stdout
runCapture(o) ==
    CASE o.kind = "absent"  -> [status |-> NullStatus, error |-> TRUE, stdout |-> <<>>]
      [] o.kind = "killed"  -> [status |-> NullStatus, error |-> FALSE, stdout |-> <<>>]
      [] o.kind = "nonzero" -> [status |-> 1, error |-> FALSE, stdout |-> <<>>]
      [] o.kind = "empty"   -> [status |-> 0, error |-> FALSE, stdout |-> <<>>]
      [] o.kind = "version" -> [status |-> 0, error |-> FALSE,
                                stdout |-> PrintVersion(o.maj, o.min)]

IsSpace(c) == c \in {" ", "\n", "\t", "\r"}

RECURSIVE TrimLeft(_)
TrimLeft(s) ==
    IF s # <<>> /\ IsSpace(Head(s)) THEN TrimLeft(Tail(s)) ELSE s

RECURSIVE TrimRight(_)
TrimRight(s) ==
    IF s # <<>> /\ IsSpace(s[Len(s)]) THEN TrimRight(SubSeq(s, 1, Len(s) - 1))
    ELSE s

\* String.prototype.trim
trim(s) == TrimRight(TrimLeft(s))

RECURSIVE SplitFrom(_, _, _)
\* pieces of s between dots; cur is the piece being collected
SplitFrom(s, cur, acc) ==
    IF s = <<>> THEN Append(acc, cur)
    ELSE IF Head(s) = "." THEN SplitFrom(Tail(s), <<>>, Append(acc, cur))
    ELSE SplitFrom(Tail(s), Append(cur, Head(s)), acc)

\* v.split('.')
split(s) == SplitFrom(s, <<>>, <<>>)

IsDigit(c) == \E i \in 1..10 : DigitChar[i] = c

DigitVal(c) == (CHOOSE i \in 1..10 : DigitChar[i] = c) - 1

RECURSIVE DecVal(_, _)
DecVal(s, acc) ==
    IF s = <<>> THEN acc ELSE DecVal(Tail(s), acc * 10 + DigitVal(Head(s)))

\* Number(str) for the strings that occur here: '' is 0, a decimal numeral
\* is its value, anything else is NaN
Number(s) ==
    LET t == trim(s) IN
    IF \A i \in 1..Len(t) : IsDigit(t[i]) THEN DecVal(t, 0) ELSE NaN

\* variant: the minimum minor version itself is rejected
VersionOkStrict(maj, min) == maj = 3 /\ min # NaN /\ min > 11

\* maj === 3 && min >= 11 (false when min is undefined or NaN)
VersionOk(maj, min) == maj = 3 /\ min # NaN /\ min >= 11

\* the test of the loop body of findPython311Plus on one probe result
ProbeAccepts(r) ==
    /\ r.status = 0
    /\ r.stdout # <<>>
    /\ LET parts == split(trim(r.stdout)) IN
       /\ Len(parts) >= 2
       /\ VersionOk(Number(parts[1]), Number(parts[2]))

\* ------------------------------------------------------------------------
\* State

VARIABLES
    platform,     \* process.platform, fixed for the machine
    fs,           \* the paths of the fixed layout that exist on disk
    installed,    \* the rql package is installed in the environment
    probeEnv,     \* what each candidate name resolves to on this machine
    ppc,          \* provisioner: position in main()
    pidx,         \* provisioner: index of the candidate being probed
    py,           \* provisioner: result of findPython311Plus
    started,      \* provisioner: step children started in this run
    res,          \* provisioner: spawnSync result of each step, this run
    pexit,        \* provisioner: exit status of the process
    venvAtStart,  \* provisioner: vendor/venv existed when this run began
    probed,       \* provisioner: candidate indexes probed in this run, in order
    fsAtStart,    \* history: the disk when this run began
    everStarted,  \* history: step children started in any run so far
    provisioned,  \* history: some run's install child exited with status 0
    lpc,          \* launcher: position
    largv,        \* launcher: process.argv.slice(2)
    cargs,        \* launcher: argument vector handed to spawn
    cstarted,     \* launcher: a child process was started
    cres,         \* launcher: (code, signal) of the child's exit event
    lvalid,       \* launcher: fs.existsSync(venvPython) at line 20
    lterm         \* launcher: how the launcher process ended

fsVars == <<platform, fs, installed>>
histVars == <<fsAtStart, everStarted, provisioned>>
pVars == <<ppc, pidx, py, started, res, pexit, venvAtStart, probed, histVars>>
lVars == <<lpc, largv, cargs, cstarted, cres, lvalid, lterm>>
vars == <<platform, fs, installed, probeEnv, ppc, pidx, py, started, res,
          pexit, venvAtStart, probed, fsAtStart, everStarted, provisioned,
          lpc, largv, cargs, cstarted, cres, lvalid, lterm>>

Launchers == 1..NumLaunchers

Steps == {"create", "upgrade", "install"}

RECURSIVE SeqsUpTo(_, _)
\* all sequences over S of length at most n
SeqsUpTo(S, n) ==
    IF n = 0 THEN {<<>>}
    ELSE LET shorter == SeqsUpTo(S, n - 1) IN
         shorter \cup {Append(q, x) : q \in shorter, x \in S}

ArgLists == SeqsUpTo(ArgTokens, MaxArgs)

\* how a process ended
NotEnded == [kind |-> "none", code |-> NullStatus, signal |-> null]
ByExit(c) == [kind |-> "exit", code |-> c, signal |-> null]
BySignal(g) == [kind |-> "signal", code |-> NullStatus, signal |-> g]

NoProbes == [i \in 1..NumCandidates |-> [kind |-> "absent", maj |-> 0, min |-> 0]]

InitLaunchers ==
    /\ lpc = [l \in Launchers |-> "idle"]
    /\ largv = [l \in Launchers |-> <<>>]
    /\ cargs = [l \in Launchers |-> <<>>]
    /\ cstarted = [l \in Launchers |-> FALSE]
    /\ cres = [l \in Launchers |-> NoResult]
    /\ lvalid = [l \in Launchers |-> FALSE]
    /\ lterm = [l \in Launchers |-> NotEnded]

\* no provisioner process yet
InitRun ==
    /\ ppc = "idle"
    /\ pidx = 1
    /\ py = null
    /\ started = {}
    /\ res = [s \in Steps |-> NoResult]
    /\ pexit = NullStatus
    /\ venvAtStart = FALSE
    /\ probed = <<>>
    /\ fsAtStart = {}

InitProvisioner ==
    /\ InitRun
    /\ everStarted = {}
    /\ provisioned = FALSE

\* a fresh checkout: nothing of the layout exists yet
Init ==
    /\ platform \in Platforms
    /\ fs = {}
    /\ installed = FALSE
    /\ probeEnv = NoProbes
    /\ InitProvisioner
    /\ InitLaunchers

\* ------------------------------------------------------------------------
\* Provisioner: main() of scripts/postinstall.js

\* process.exit(n)
PExit(n) ==
    /\ ppc' = "exited"
    /\ pexit' = n

\* variant: ensureDir(VENDOR) is done first thing in main()
PStartEnsuring ==
    /\ ppc \in {"idle", "exited"}
    /\ ppc' = "discover"
    /\ pidx' = 1
    /\ py' = null
    /\ started' = {}
    /\ res' = [s \in Steps |-> NoResult]
    /\ pexit' = NullStatus
    /\ venvAtStart' = (VENV \in fs)
    /\ probed' = <<>>
    /\ fsAtStart' = fs
    /\ fs' = fs \cup {VENDOR}
    /\ UNCHANGED <<platform, installed, probeEnv, everStarted, provisioned, lVars>>

\* node scripts/postinstall.js is started
PStart ==
    /\ ppc \in {"idle", "exited"}
    /\ ppc' = "discover"
    /\ pidx' = 1
    /\ py' = null
    /\ started' = {}
    /\ res' = [s \in Steps |-> NoResult]
    /\ pexit' = NullStatus
    /\ venvAtStart' = (VENV \in fs)
    /\ probed' = <<>>
    /\ fsAtStart' = fs
    /\ UNCHANGED <<fsVars, probeEnv, everStarted, provisioned, lVars>>

\* variant: an accepted candidate is remembered but the loop goes on, so
\* the last acceptable candidate wins
PProbeNoReturn(o) ==
    /\ ppc = "discover"
    /\ probed' = Append(probed, pidx)
    /\ py' = (IF ProbeAccepts(runCapture(o)) THEN Candidates(platform)[pidx] ELSE py)
    /\ IF pidx < NumCandidates
       THEN /\ pidx' = pidx + 1
            /\ UNCHANGED <<ppc, pexit>>
       ELSE IF py' # null
       THEN /\ ppc' = "ensure"
            /\ UNCHANGED <<pidx, pexit>>
       ELSE /\ PExit(1)
            /\ UNCHANGED pidx
    /\ UNCHANGED <<fsVars, probeEnv, started, res, venvAtStart, histVars, lVars>>

\* one iteration of the loop of findPython311Plus, the candidate resolving
\* to o; after the last candidate the function returns null and main exits 1
PProbe(o) ==
    /\ ppc = "discover"
    /\ probed' = Append(probed, pidx)
    /\ IF ProbeAccepts(runCapture(o))
       THEN /\ py' = Candidates(platform)[pidx]
            /\ ppc' = "ensure"
            /\ UNCHANGED <<pidx, pexit>>
       ELSE IF pidx < NumCandidates
       THEN /\ pidx' = pidx + 1
            /\ UNCHANGED <<py, ppc, pexit>>
       ELSE /\ PExit(1)
            /\ UNCHANGED <<py, pidx>>
    /\ UNCHANGED <<fsVars, probeEnv, started, res, venvAtStart, histVars, lVars>>

\* ensureDir(VENDOR); mkdirSync may throw, which ends the process with 1
PEnsureDir(mkdirOk) ==
    /\ ppc = "ensure"
    /\ IF VENDOR \in fs
       THEN /\ ppc' = "create"
            /\ UNCHANGED <<fs, pexit>>
       ELSE IF mkdirOk
       THEN /\ fs' = fs \cup {VENDOR}
            /\ ppc' = "create"
            /\ UNCHANGED pexit
       ELSE /\ PExit(1)
            /\ UNCHANGED fs
    /\ UNCHANGED <<platform, installed, probeEnv, pidx, py, started, res,
                   venvAtStart, probed, histVars, lVars>>

\* what `python -m venv VENV` may leave on disk, by its result
CreateEffects(plat, r, f) ==
    IF r = NotStarted THEN {f}
    ELSE IF r = Exited(0) THEN {f \cup {VENV, venvPython(plat)}}
    ELSE {f, f \cup {VENV}, f \cup {VENV, venvPython(plat)}}

\* variant: the environment is created whether or not it exists
VenvMissingAlways(f) == TRUE

\* variant: the environment counts as missing while it has no interpreter
VenvMissingInterpreter(f) == \A plat \in Platforms : venvPython(plat) \notin f

\* if (!fs.existsSync(VENV))
VenvMissing(f) == VENV \notin f

\* variant: a failed creation is re-coded to the fixed status
CreateExitFixed(status) == 1

\* process.exit(status) after a failed creation
CreateExitStatus(status) == status

\* step 1: the environment exists already, creation is skipped
PCreateSkip ==
    /\ ppc = "create"
    /\ ~VenvMissing(fs)
    /\ ppc' = "upgrade"
    /\ UNCHANGED <<fsVars, probeEnv, pidx, py, started, res, pexit,
                   venvAtStart, probed, histVars, lVars>>

\* step 1: create the environment with the selected interpreter
PCreate(r) ==
    /\ ppc = "create"
    /\ VenvMissing(fs)
    /\ started' = started \cup {"create"}
    /\ res' = [res EXCEPT !["create"] = r]
    /\ fs' \in CreateEffects(platform, r, fs)
    /\ IF run(r) # 0
       THEN PExit(CreateExitStatus(run(r)))
       ELSE /\ ppc' = "upgrade"
            /\ UNCHANGED pexit
    /\ everStarted' = everStarted \cup {"create"}
    /\ UNCHANGED <<platform, installed, probeEnv, pidx, py, venvAtStart, probed,
                   fsAtStart, provisioned, lVars>>

\* results a child started from the environment interpreter can have: it
\* cannot be started when the interpreter file does not exist
VenvChildResults(plat, f) ==
    IF venvPython(plat) \in f THEN ChildResults ELSE {NotStarted}

\* variant: a failed upgrade removes the environment again
PUpgradeRollback(r) ==
    /\ ppc = "upgrade"
    /\ r \in VenvChildResults(platform, fs)
    /\ started' = started \cup {"upgrade"}
    /\ res' = [res EXCEPT !["upgrade"] = r]
    /\ IF run(r) # 0
       THEN /\ PExit(1)
            /\ fs' = fs \ {VENV, venvPython(platform)}
            /\ installed' = FALSE
       ELSE /\ ppc' = "install"
            /\ UNCHANGED <<pexit, fs, installed>>
    /\ everStarted' = everStarted \cup {"upgrade"}
    /\ UNCHANGED <<platform, probeEnv, pidx, py, venvAtStart, probed, fsAtStart,
                   provisioned, lVars>>

\* step 3: upgrade pip/setuptools/wheel
PUpgrade(r) ==
    /\ ppc = "upgrade"
    /\ r \in VenvChildResults(platform, fs)
    /\ started' = started \cup {"upgrade"}
    /\ res' = [res EXCEPT !["upgrade"] = r]
    /\ IF run(r) # 0
       THEN PExit(1)
       ELSE /\ ppc' = "install"
            /\ UNCHANGED pexit
    /\ everStarted' = everStarted \cup {"upgrade"}
    /\ UNCHANGED <<fsVars, probeEnv, pidx, py, venvAtStart, probed, fsAtStart,
                   provisioned, lVars>>

\* whether the package is installed after `pip install .`, by its result
InstallEffects(r, inst) ==
    IF r = NotStarted THEN {inst}
    ELSE IF r = Exited(0) THEN {TRUE}
    ELSE {inst, FALSE}

\* step 4: install the package; then 'Install complete' and main returns
PInstall(r) ==
    /\ ppc = "install"
    /\ r \in VenvChildResults(platform, fs)
    /\ started' = started \cup {"install"}
    /\ res' = [res EXCEPT !["install"] = r]
    /\ installed' \in InstallEffects(r, installed)
    /\ IF run(r) # 0
       THEN PExit(1)
       ELSE PExit(0)
    /\ everStarted' = everStarted \cup {"install"}
    /\ provisioned' = (provisioned \/ r = Exited(0))
    /\ UNCHANGED <<platform, fs, probeEnv, pidx, py, venvAtStart, probed,
                   fsAtStart, lVars>>

PNext ==
    \/ PStart
    \/ \E o \in ProbeOutcomes : PProbe(o)
    \/ \E ok \in BOOLEAN : PEnsureDir(ok)
    \/ PCreateSkip
    \/ \E r \in ChildResults : PCreate(r)
    \/ \E r \in ChildResults : PUpgrade(r)
    \/ \E r \in ChildResults : PInstall(r)

\* ------------------------------------------------------------------------
\* Launcher: the bin shim

\* variant: slice(3) instead of slice(2) drops the first argument
LauncherArgsDropFirst(argv) ==
    <<"-m", "rql">> \o (IF argv = <<>> THEN <<>> ELSE Tail(argv))

\* const args = ['-m', 'rql', ...process.argv.slice(2)]
LauncherArgs(argv) == <<"-m", "rql">> \o argv

\* signals node ignores unless a listener is installed
NodeIgnoredSignals == {"SIGPIPE"}

\* process.kill(process.pid, signal) ends the process unless node ignores
\* the signal
KillsSelf(sig) == sig \notin NodeIgnoredSignals

\* variant: the child's code is not passed on
ExitCodeDropped(code) == 0

\* code ?? 0
ExitCodeOf(code) == IF code = NullStatus THEN 0 ELSE code

\* variant: fail() reports the problem but ends the launcher with status 0
failQuietly == ByExit(0)

\* fail(msg): how the launcher ends, process.exit(1)
fail == ByExit(1)

\* the launcher is started with arguments argv: validate, then spawn.  A
\* spawn that fails emits 'error', which has no listener: the process ends
\* with status 1 and no child ever runs.
LStart(l, argv, spawnOk) ==
    /\ lpc[l] \in {"idle", "exited"}
    /\ largv' = [largv EXCEPT ![l] = argv]
    /\ cres' = [cres EXCEPT ![l] = NoResult]
    /\ lvalid' = [lvalid EXCEPT ![l] = (venvPython(platform) \in fs)]
    /\ IF venvPython(platform) \notin fs
       THEN /\ lpc' = [lpc EXCEPT ![l] = "exited"]
            /\ lterm' = [lterm EXCEPT ![l] = fail]
            /\ cargs' = [cargs EXCEPT ![l] = <<>>]
            /\ cstarted' = [cstarted EXCEPT ![l] = FALSE]
       ELSE /\ cargs' = [cargs EXCEPT ![l] = LauncherArgs(argv)]
            /\ IF spawnOk
               THEN /\ lpc' = [lpc EXCEPT ![l] = "running"]
                    /\ lterm' = [lterm EXCEPT ![l] = NotEnded]
                    /\ cstarted' = [cstarted EXCEPT ![l] = TRUE]
               ELSE /\ lpc' = [lpc EXCEPT ![l] = "exited"]
                    /\ lterm' = [lterm EXCEPT ![l] = ByExit(1)]
                    /\ cstarted' = [cstarted EXCEPT ![l] = FALSE]
    /\ UNCHANGED <<fsVars, probeEnv, pVars>>

\* results the 'exit' event of a started child can carry
ExitEvents == {Exited(s) : s \in ExitStatuses} \cup {Killed(g) : g \in Signals}

\* child.on('exit', (code, signal) => ...)
LChildExit(l, r) ==
    /\ lpc[l] = "running"
    /\ cres' = [cres EXCEPT ![l] = r]
    /\ lpc' = [lpc EXCEPT ![l] = "exited"]
    /\ lterm' = [lterm EXCEPT ![l] =
                    IF r.signal # null /\ KillsSelf(r.signal)
                    THEN BySignal(r.signal)
                    ELSE ByExit(ExitCodeOf(r.status))]
    /\ UNCHANGED <<fsVars, probeEnv, pVars, largv, cargs, cstarted, lvalid>>

\* the steps of launcher process l
LaunchStep(l) ==
    \/ \E argv \in ArgLists, ok \in BOOLEAN : LStart(l, argv, ok)
    \/ \E r \in ExitEvents : LChildExit(l, r)

FirstLauncher == CHOOSE l \in Launchers : \A m \in Launchers : l <= m

\* launcher invocations one after the other
LNext == LaunchStep(FirstLauncher)

\* launcher processes side by side
LConcNext == \E l \in Launchers : LaunchStep(l)

\* ------------------------------------------------------------------------
\* Specifications

\* provisioning runs and launcher invocations, in any interleaving
Next == PNext \/ LNext

Spec == Init /\ [][Next]_vars

\* provisioning runs alone
SpecProv == Init /\ [][PNext]_vars

\* what provisioning runs can leave on disk
DiskStates(plat) ==
    {<<{}, FALSE>>, <<{VENDOR}, FALSE>>, <<{VENDOR, VENV}, FALSE>>,
     <<{VENDOR, VENV, venvPython(plat)}, FALSE>>,
     <<{VENDOR, VENV, venvPython(plat)}, TRUE>>}

\* launcher invocations alone, on any disk state provisioning can leave
InitLaunch ==
    /\ platform \in Platforms
    /\ \E d \in DiskStates(platform) : fs = d[1] /\ installed = d[2]
    /\ probeEnv = NoProbes
    /\ InitRun
    /\ everStarted = (IF installed THEN Steps
                      ELSE IF VENV \in fs THEN {"create"} ELSE {})
    /\ provisioned = installed
    /\ InitLaunchers

SpecLaunch == InitLaunch /\ [][LNext]_vars

\* several launcher processes at once on a provisioned environment
InitConc ==
    /\ platform \in Platforms
    /\ fs = {VENDOR, VENV, venvPython(platform)}
    /\ installed = TRUE
    /\ probeEnv = NoProbes
    /\ InitRun
    /\ everStarted = Steps
    /\ provisioned = TRUE
    /\ InitLaunchers

SpecConc == InitConc /\ [][LConcNext]_vars

\* interpreter discovery alone, on any assignment of probe outcomes to the
\* candidates
InitDiscover ==
    /\ platform \in Platforms
    /\ fs = {}
    /\ installed = FALSE
    /\ probeEnv \in [1..NumCandidates -> ProbeOutcomes]
    /\ InitProvisioner
    /\ InitLaunchers

\* the loop iteration on the candidate the machine resolves
DProbe == PProbe(probeEnv[pidx])

DNext == PStart \/ DProbe

SpecDiscover == InitDiscover /\ [][DNext]_vars

\* ------------------------------------------------------------------------
\* Properties

\* the disk is always in one of DiskStates, and each of them is reached
DiskOk == <<fs, installed>> \in DiskStates(platform)

DiskEmptyVendor == fs = {VENDOR}
DiskNoInterpreter == fs = {VENDOR, VENV}
DiskNotInstalled == venvPython(platform) \in fs /\ ~installed
DiskInstalled == venvPython(platform) \in fs /\ installed


\* a step's child finished normally with exit status 0
StepOk(s) == res[s] = Exited(0)

\* the steps that come after step s in main()
LaterSteps(s) ==
    CASE s = "create"  -> {"upgrade", "install"}
      [] s = "upgrade" -> {"install"}
      [] s = "install" -> {}

\* the provisioner has ended with status n
PEnded(n) == ppc = "exited" /\ pexit = n

\* C1: after a provisioning run that ended with status 0, vendor/venv
\* exists and the install child of that run exited normally with status 0,
\* whatever the outcomes of the create, upgrade and install children.
C1_SuccessMeansInstalled ==
    PEnded(0) => (VENV \in fs /\ StepOk("install"))

\* C2: a step whose child did not finish normally with status 0 (non-zero
\* exit, not started, or killed by a signal) ends the provisioner at once
\* with a non-zero status, and no later step's child is started.
C2_EveryFailureFatal ==
    \A s \in started :
        ~StepOk(s) =>
            /\ ppc = "exited"
            /\ pexit \notin {0, NullStatus}
            /\ started \cap LaterSteps(s) = {}

\* C3: a launcher whose child was terminated by signal S ends by that same
\* signal S, never through a numeric exit code.
C3_SignalRedelivered ==
    \A l \in Launchers :
        (lpc[l] = "exited" /\ cres[l].signal # null) =>
            lterm[l] = BySignal(cres[l].signal)

\* a candidate whose probe succeeded with major == 3 and minor >= 11
Qualifies(o) == o.kind = "version" /\ o.maj = 3 /\ o.min >= 11

QualifyingIndexes == {i \in 1..NumCandidates : Qualifies(probeEnv[i])}

\* discovery has returned
Discovered == ppc \in {"ensure", "exited"}

\* C4: discovery returns the first candidate in priority order whose probe
\* succeeded with major == 3 and minor >= 11, and null exactly when no
\* candidate qualifies; earlier failed or absent candidates do not stop it.
C4_FirstQualifyingCandidate ==
    Discovered =>
        IF QualifyingIndexes = {}
        THEN py = null
        ELSE \E i \in QualifyingIndexes :
                /\ \A j \in QualifyingIndexes : i <= j
                /\ py = Candidates(platform)[i]

\* C4 witness: the third candidate was selected after an absent first and
\* a too old second candidate
C4_Witness ==
    /\ ppc = "ensure"
    /\ probeEnv[1].kind = "absent"
    /\ probeEnv[2] = [kind |-> "version", maj |-> 3, min |-> 9]
    /\ probeEnv[3] = [kind |-> "version", maj |-> 3, min |-> 11]
    /\ py = Candidates(platform)[3]

\* C5: a launcher started while the environment interpreter is missing
\* ends with exit status 1 and starts no child process.
C5_MissingInterpreterFails ==
    \A l \in Launchers :
        (lpc[l] # "idle" /\ ~lvalid[l]) =>
            /\ lpc[l] = "exited"
            /\ lterm[l] = ByExit(1)
            /\ ~cstarted[l]
            /\ cres[l] = NoResult

\* C5 witness: a launcher has failed on the missing interpreter
C5_Witness ==
    \E l \in Launchers :
        /\ lpc[l] = "exited"
        /\ ~lvalid[l]
        /\ venvPython(platform) \notin fs
        /\ largv[l] # <<>>

\* C6: when the create child exits with a non-zero status s, the
\* provisioner ends with status s and starts neither upgrade nor install.
C6_CreateStatusPropagated ==
    ("create" \in started /\ res["create"].status \notin {0, NullStatus}) =>
        /\ PEnded(res["create"].status)
        /\ started = {"create"}

\* C6 witness: creation exited with 7 and so did the provisioner
C6_Witness == res["create"] = Exited(7) /\ PEnded(7)

\* C7: in a run that began with vendor/venv present and found an
\* interpreter, the create child is never started, the upgrade child is
\* started, and if it exits with status 0 the install child is started.
C7_RerunSkipsCreateOnly ==
    (venvAtStart /\ py # null) =>
        /\ "create" \notin started
        /\ ppc = "exited" =>
            /\ "upgrade" \in started
            /\ StepOk("upgrade") => "install" \in started

\* C7 witness: a re-run on an existing environment ran upgrade and install
C7_Witness ==
    /\ venvAtStart
    /\ py # null
    /\ ppc = "exited"
    /\ started = {"upgrade", "install"}
    /\ StepOk("upgrade")

\* C8: the argument vector handed to the environment interpreter is
\* '-m', 'rql' followed by the launcher's arguments in their order.
C8_ArgsForwardedVerbatim ==
    \A l \in Launchers :
        lvalid[l] =>
            /\ Len(cargs[l]) = Len(largv[l]) + 2
            /\ cargs[l][1] = "-m"
            /\ cargs[l][2] = "rql"
            /\ \A i \in 1..Len(largv[l]) : cargs[l][i + 2] = largv[l][i]

\* C8 witness: a child was started for two distinct arguments
C8_Witness ==
    \E l \in Launchers :
        /\ cstarted[l]
        /\ largv[l] = <<"run", "-v">>

\* C9: when the child exits normally with code c the launcher ends with
\* exit code c, and a launcher that started a child has not ended before
\* the child's exit event.
C9_ExitCodePropagated ==
    \A l \in Launchers :
        /\ (lpc[l] = "exited" /\ cres[l].status # NullStatus) =>
               lterm[l] = ByExit(cres[l].status)
        /\ (cstarted[l] /\ cres[l] = NoResult) =>
               (lpc[l] = "running" /\ lterm[l] = NotEnded)

\* C9 witness: child and launcher both ended with code 7
C9_Witness ==
    \E l \in Launchers :
        /\ lpc[l] = "exited"
        /\ cres[l] = Exited(7)
        /\ lterm[l] = ByExit(7)

\* C10: the provisioner ends with status 1 when no interpreter is found,
\* when the upgrade step fails and when the install step fails, whatever
\* the child's own status; it ends with 0 only when every step succeeded;
\* the launcher ends with 1 when the environment interpreter is missing.
C10_FixedExitStatuses ==
    /\ (ppc = "exited" /\ py = null) => pexit = 1
    /\ \A s \in {"upgrade", "install"} :
           (s \in started /\ ~StepOk(s)) => PEnded(1)
    /\ PEnded(0) =>
           /\ {"upgrade", "install"} \subseteq started
           /\ \A s \in started : StepOk(s)
    /\ \A l \in Launchers :
           (lpc[l] # "idle" /\ ~lvalid[l]) => lterm[l] = ByExit(1)


\* the environment interpreter is on disk
InterpreterExists == venvPython(platform) \in fs

\* C11 as stated: a launcher starts a child only once some provisioning
\* run has completed with its install child exiting 0, and fails fast with
\* status 1 in every state where no run has.
C11_LaunchOnlyAfterSuccess ==
    \A l \in Launchers :
        /\ cstarted[l] => provisioned
        /\ (lpc[l] # "idle" /\ ~provisioned) =>
               (lterm[l] = ByExit(1) /\ ~cstarted[l])

\* C11 as amended: a launcher starts a child only in states where the
\* environment interpreter exists, which some provisioning run's create
\* child left there, and fails fast with status 1 in every state where the
\* interpreter is missing.
C11_LaunchOnlyWithInterpreter ==
    \A l \in Launchers :
        /\ cstarted[l] =>
               (lvalid[l] /\ InterpreterExists /\ "create" \in everStarted)
        /\ (lpc[l] # "idle" /\ ~InterpreterExists) =>
               (lpc[l] = "exited" /\ lterm[l] = ByExit(1) /\ ~cstarted[l])

\* C11 witness: a child was started although the only provisioning so far
\* got as far as the upgrade step and never installed the package
C11_Witness ==
    \E l \in Launchers :
        /\ cstarted[l]
        /\ ~provisioned
        /\ "upgrade" \in everStarted
        /\ "install" \notin everStarted

\* a step's child process actually ran in this run
ChildRan(s) == s \in started /\ res[s] # NotStarted

\* C12: within a run the vendor directory is ensured before the create
\* child, the upgrade child runs only once vendor/venv exists, either from
\* before the run or created with status 0, and the install child is started
\* only after the upgrade child returned status 0.
C12_StrictStepOrder ==
    /\ "create" \in started => VENDOR \in fs
    /\ ChildRan("upgrade") =>
           /\ VENV \in fs
           /\ venvAtStart \/ StepOk("create")
    /\ "install" \in started => StepOk("upgrade")

\* vendor/venv is on disk without an interpreter in it
BrokenEnv == VENV \in fs /\ ~InterpreterExists

\* in a run that began on the broken environment
C13_BrokenRun ==
    (BrokenEnv /\ venvAtStart) =>
        /\ "create" \notin started
        /\ "install" \notin started
        /\ pexit # 0
        /\ "upgrade" \in started =>
               (res["upgrade"] = NotStarted /\ PEnded(1))

\* C13: an environment directory without an interpreter is never recreated:
\* it stays as it is over every provisioner step, every run that began
\* with it skips creation, fails at the upgrade step when it gets there and
\* never reaches install, and the package stays uninstalled.
C13_BrokenEnvStaysBroken ==
    /\ [](C13_BrokenRun /\ (BrokenEnv => ~installed))
    /\ [][BrokenEnv => BrokenEnv']_vars

\* C13 witness: a re-run on the broken environment failed at the upgrade
C13_Witness ==
    /\ BrokenEnv
    /\ venvAtStart
    /\ started = {"upgrade"}
    /\ PEnded(1)
    /\ "create" \in everStarted

\* C14: no provisioner step removes anything from disk, so vendor/venv,
\* once there, is still there after any run, failed or not, and a run that
\* began with it never starts the create child.
C14_EnvNeverDeleted ==
    /\ [][fs \subseteq fs']_vars
    /\ [](venvAtStart => (VENV \in fs /\ "create" \notin started))

\* C14 witness: after an earlier run that started the upgrade and no run
\* that installed, a new run has skipped creation
C14_Witness ==
    /\ venvAtStart
    /\ VENV \in fs
    /\ ppc = "upgrade"
    /\ started = {}
    /\ "upgrade" \in everStarted
    /\ ~provisioned

\* the child outcome a launcher is to end with
OwnOutcome(r) ==
    IF r.signal # null THEN BySignal(r.signal) ELSE ByExit(r.status)

\* C15: with several launchers interleaved on a provisioned environment,
\* each one that ended after starting its child was given its own
\* arguments and ended with the exit code or signal of its own child, and
\* the disk is as it was.
C15_LaunchesIndependent ==
    /\ fs = {VENDOR, VENV, venvPython(platform)}
    /\ installed
    /\ \A l \in Launchers :
           (cstarted[l] /\ lpc[l] = "exited") =>
               /\ cargs[l] = <<"-m", "rql">> \o largv[l]
               /\ lterm[l] = OwnOutcome(cres[l])

\* C16: candidates are probed one at a time in priority order, each only
\* after all earlier ones were probed and did not qualify, and none after
\* one was accepted.
C16_SequentialShortCircuit ==
    /\ \A k \in 1..Len(probed) : probed[k] = k
    /\ \A k \in 1..(Len(probed) - 1) : ~Qualifies(probeEnv[k])
    /\ ppc = "discover" =>
           (pidx = Len(probed) + 1 /\ \A k \in 1..Len(probed) : ~Qualifies(probeEnv[k]))
    /\ py # null =>
           /\ Len(probed) >= 1
           /\ Qualifies(probeEnv[Len(probed)])
           /\ py = Candidates(platform)[Len(probed)]

\* C16 witness: the second candidate was accepted with two still unprobed
C16_Witness ==
    /\ ppc = "ensure"
    /\ probed = <<1, 2>>
    /\ Qualifies(probeEnv[3])
    /\ Qualifies(probeEnv[4])

\* C17: a run in which discovery finds no interpreter ends with status 1,
\* leaves the disk as it was when the run began, and starts no create,
\* upgrade or install child.
C17_NoInterpreterNoEffect ==
    (ppc = "exited" /\ py = null) =>
        /\ pexit = 1
        /\ fs = fsAtStart
        /\ started = {}
        /\ Len(probed) = NumCandidates

\* C17 witness: discovery failed on a disk without the vendor directory
C17_Witness ==
    /\ ppc = "exited"
    /\ py = null
    /\ fs = {}
    /\ Len(probed) = NumCandidates

====
